---- MODULE Spec2Model ----
(***************************************************************************)
(* Model of code/Data_Quality.py: analyze_data_quality(file_path).         *)
(*                                                                         *)
(* The program is one sequential pass: load the table, then ten report     *)
(* sections.  Each section is one action; pc is the position in the        *)
(* function body.  Text (column names, cell contents) is a tuple of        *)
(* one-character strings so that lower(), strip(), "in" and float() are    *)
(* computed, not assumed.  Amounts are integers counting thousandths       *)
(* (a cell "115.005" is 115005) where the program computes with binary     *)
(* floats; no input puts a cost difference within rounding error of the    *)
(* 0.01 tolerance, so the two agree on every comparison made.              *)
(***************************************************************************)
EXTENDS Integers, Sequences, FiniteSets, TLC

VARIABLES file, loadOk, pc, df, out,
          date_columns, numeric_columns, boolean_columns,
          missing_df, duplicates

vars == <<file, loadOk, pc, df, out, date_columns, numeric_columns,
          boolean_columns, missing_df, duplicates>>

-----------------------------------------------------------------------------
(* Text *)

UPPER == <<"A","B","C","D","E","F","G","H","I","J","K","L","M",
           "N","O","P","Q","R","S","T","U","V","W","X","Y","Z">>
LOWER == <<"a","b","c","d","e","f","g","h","i","j","k","l","m",
           "n","o","p","q","r","s","t","u","v","w","x","y","z">>
DIGITS == <<"0","1","2","3","4","5","6","7","8","9">>

Range(s) == {s[i] : i \in DOMAIN s}

LowerChar(c) ==
    IF \E i \in DOMAIN UPPER : UPPER[i] = c
    THEN LOWER[CHOOSE i \in DOMAIN UPPER : UPPER[i] = c]
    ELSE c

\* str.lower()
Lower(s) == [i \in DOMAIN s |-> LowerChar(s[i])]

\* str.strip(): surrounding whitespace removed
RECURSIVE LStrip(_)
LStrip(s) == IF s # <<>> /\ Head(s) = " " THEN LStrip(Tail(s)) ELSE s

RECURSIVE RStrip(_)
RStrip(s) ==
    IF s # <<>> /\ s[Len(s)] = " " THEN RStrip(SubSeq(s, 1, Len(s) - 1)) ELSE s

Strip(s) == RStrip(LStrip(s))

\* kw in s
Contains(s, kw) ==
    \E i \in 1..(Len(s) - Len(kw) + 1) : SubSeq(s, i, i + Len(kw) - 1) = kw

\* str.replace(ch, '')
RECURSIVE Remove(_, _)
Remove(s, ch) ==
    IF s = <<>> THEN <<>>
    ELSE IF Head(s) = ch THEN Remove(Tail(s), ch)
    ELSE <<Head(s)>> \o Remove(Tail(s), ch)

\* [x for x in s if Keep(x)]
Filter(s, Keep(_)) ==
    LET idx == {i \in DOMAIN s : Keep(s[i])}
    IN  [j \in 1..Cardinality(idx) |->
            s[CHOOSE i \in idx : Cardinality({k \in idx : k <= i}) = j]]

\* [F(x) for x in s]
Map(s, F(_)) == [i \in DOMAIN s |-> F(s[i])]

RECURSIVE Concat(_)
Concat(ss) == IF ss = <<>> THEN <<>> ELSE Head(ss) \o Concat(Tail(ss))

RECURSIVE SumSeq(_)
SumSeq(s) == IF s = <<>> THEN 0 ELSE Head(s) + SumSeq(Tail(s))

Count(s, P(_)) == Cardinality({i \in DOMAIN s : P(s[i])})

Abs(x) == IF x < 0 THEN -x ELSE x

-----------------------------------------------------------------------------
(* Cell values *)

NaN == [k |-> "nan"]
Num(n) == [k |-> "num", v |-> n]
Txt(s) == [k |-> "str", v |-> s]
Bool(b) == [k |-> "bool", v |-> b]

IsNull(x) == x.k = "nan"
IsNum(x) == x.k = "num"
IsTxt(x) == x.k = "str"

IsDigit(c) == \E i \in DOMAIN DIGITS : DIGITS[i] = c
DigitVal(c) == (CHOOSE i \in DOMAIN DIGITS : DIGITS[i] = c) - 1

RECURSIVE DigitsVal(_)
DigitsVal(s) ==
    IF s = <<>> THEN 0 ELSE DigitsVal(SubSeq(s, 1, Len(s) - 1)) * 10 + DigitVal(s[Len(s)])

AllDigits(s) == \A i \in DOMAIN s : IsDigit(s[i])

\* Fraction digits scaled to thousandths
FracVal(f) ==
    CASE Len(f) = 0 -> 0
      [] Len(f) = 1 -> DigitsVal(f) * 100
      [] Len(f) = 2 -> DigitsVal(f) * 10
      [] OTHER -> DigitsVal(f)

UnsignedForm(s) ==
    LET dots == {i \in DOMAIN s : s[i] = "."}
    IN  IF dots = {} THEN s # <<>> /\ AllDigits(s)
        ELSE /\ Cardinality(dots) = 1
             /\ LET p == CHOOSE i \in dots : TRUE
                IN  /\ p > 1
                    /\ AllDigits(SubSeq(s, 1, p - 1))
                    /\ p < Len(s)
                    /\ Len(s) - p <= 3
                    /\ AllDigits(SubSeq(s, p + 1, Len(s)))

UnsignedVal(s) ==
    LET dots == {i \in DOMAIN s : s[i] = "."}
    IN  IF dots = {} THEN DigitsVal(s) * 1000
        ELSE LET p == CHOOSE i \in dots : TRUE
             IN  DigitsVal(SubSeq(s, 1, p - 1)) * 1000 + FracVal(SubSeq(s, p + 1, Len(s)))

NANTEXT == <<"n","a","n">>

\* float(s) / the numeric parser: a decimal literal, or "nan"; FALSE when it
\* would raise ValueError
Parses(s) ==
    \/ s = NANTEXT
    \/ UnsignedForm(s)
    \/ s # <<>> /\ Head(s) = "-" /\ UnsignedForm(Tail(s))

ParseFloat(s) ==
    IF s = NANTEXT THEN NaN
    ELSE IF Head(s) = "-" THEN Num(0 - UnsignedVal(Tail(s)))
    ELSE Num(UnsignedVal(s))

-----------------------------------------------------------------------------
(* Arithmetic results.  A quotient is kept as the pair it was computed from *)

Ratio(a, b) == [k |-> "num", n |-> a, d |-> b]
NanQ == [k |-> "nan"]

\* numpy / pandas true division: x / 0 gives nan or inf with a warning
NpDiv(a, b) == IF b # 0 THEN Ratio(a, b) ELSE IF a = 0 THEN NanQ ELSE [k |-> "inf"]

\* a / b * 100 on numpy values
NpPercent(a, b) == NpDiv(a * 100, b)

\* q > x; any comparison with nan is False
QGreater(q, x) ==
    CASE q.k = "num" -> q.n > x * q.d
      [] q.k = "inf" -> TRUE
      [] OTHER -> FALSE

-----------------------------------------------------------------------------
(* Column names and keyword lists *)

BOOKING_ID == <<"B","o","o","k","i","n","g"," ","I","D">>
RESERVATION_ID == <<"R","e","s","e","r","v","a","t","i","o","n"," ","I","D">>
PARTY_SIZE == <<"P","a","r","t","y"," ","S","i","z","e">>
SEARCH_DAYS_AHEAD ==
    <<"S","e","a","r","c","h"," ","D","a","y","s"," ","A","h","e","a","d">>
RESERVATION_DAYS_AHEAD ==
    <<"R","e","s","e","r","v","a","t","i","o","n"," ","D","a","y","s"," ",
      "A","h","e","a","d">>
TOTAL_COST == <<"T","o","t","a","l"," ","C","o","s","t"," ","(","$",")">>
RESERVATION_COST ==
    <<"R","e","s","e","r","v","a","t","i","o","n"," ","C","o","s","t"," ","(","$",")">>
PACKAGES_COST ==
    <<"P","a","c","k","a","g","e","s"," ","C","o","s","t"," ","(","$",")">>
ADD_ONS_COST == <<"A","d","d"," ","O","n","s"," ","C","o","s","t"," ","(","$",")">>
PROMO_CODE_DISCOUNT ==
    <<"P","r","o","m","o"," ","C","o","d","e"," ","D","i","s","c","o","u","n","t",
      " ","(","$",")">>
PACKAGES == <<"P","a","c","k","a","g","e","s">>
CALCULATED_TOTAL ==
    <<"C","a","l","c","u","l","a","t","e","d"," ","T","o","t","a","l">>
COST_DIFFERENCE ==
    <<"C","o","s","t"," ","D","i","f","f","e","r","e","n","c","e">>

DATE_KEYWORDS == << <<"d","a","t","e">>, <<"t","i","m","e">>, <<"a","t">> >>
NUMERIC_KEYWORDS ==
    << <<"c","o","s","t">>, <<"c","h","a","r","g","e">>, <<"p","r","i","c","e">>,
       <<"a","m","o","u","n","t">>, <<"s","i","z","e">>, <<"d","a","y","s">> >>
BOOLEAN_KEYWORDS ==
    << <<"i","s">>, <<"w","a","s">>, <<"h","a","s">>,
       <<"a","v","a","i","l","a","b","l","e">>,
       <<"c","o","m","p","l","e","t","e","d">>,
       <<"s","e","l","e","c","t","e","d">>,
       <<"r","e","q","u","i","r","e","d">>,
       <<"a","p","p","l","i","e","d">> >>
NONNEGATIVE_KEYWORDS ==
    << <<"c","o","s","t">>, <<"p","r","i","c","e">>, <<"a","m","o","u","n","t">>,
       <<"s","i","z","e">> >>
KEY_NUMERIC_COLS ==
    <<PARTY_SIZE, SEARCH_DAYS_AHEAD, RESERVATION_DAYS_AHEAD, TOTAL_COST,
      RESERVATION_COST>>

\* any(keyword in col.lower() for keyword in keywords)
Hinted(col, keywords) ==
    \E i \in DOMAIN keywords : Contains(Lower(col), keywords[i])

\* [col for col in columns if any(...)]
RoleColumns(columns, keywords) == Filter(columns, LAMBDA c : Hinted(c, keywords))

-----------------------------------------------------------------------------
(* The table *)

NoTable == [cols |-> <<>>, n |-> 0, dtype |-> <<>>, data |-> <<>>]

InCols(t, col) == \E i \in DOMAIN t.cols : t.cols[i] = col

TRUETEXT == <<"T","r","u","e">>
FALSETEXT == <<"F","a","l","s","e">>

\* a cell the parser reads as missing
IsNaCell(c) == c = <<>> \/ c = NANTEXT

IsIntCell(c) ==
    \/ c # <<>> /\ AllDigits(c)
    \/ Len(c) > 1 /\ Head(c) = "-" /\ AllDigits(Tail(c))

IsBoolCell(c) == c = TRUETEXT \/ c = FALSETEXT

\* the dtype the CSV parser gives a column of raw cells
InferDtype(cells) ==
    LET present == Filter(cells, LAMBDA c : ~IsNaCell(c))
    IN  IF Len(cells) = 0 THEN "object"
        ELSE IF \A i \in DOMAIN present : Parses(present[i]) THEN
            IF Len(present) = Len(cells) /\ \A i \in DOMAIN present : IsIntCell(present[i])
            THEN "int64" ELSE "float64"
        ELSE IF Len(present) = Len(cells) /\ \A i \in DOMAIN present : IsBoolCell(present[i])
        THEN "bool"
        ELSE "object"

\* the values of a column: numbers in a numeric column, booleans where every
\* present cell is True/False, the raw text otherwise
ParseColumn(cells) ==
    LET dt == InferDtype(cells)
        allBool == \A i \in DOMAIN cells : IsNaCell(cells[i]) \/ IsBoolCell(cells[i])
        val(c) == IF IsNaCell(c) THEN NaN
                  ELSE IF dt \in {"int64", "float64"} THEN ParseFloat(c)
                  ELSE IF allBool THEN Bool(c = TRUETEXT)
                  ELSE Txt(c)
    IN  Map(cells, val)

\* pd.read_csv on a readable file: header row plus records
ReadCsv(f) ==
    LET raw(j) == [i \in DOMAIN f.rows |-> f.rows[i][j]]
        idx(col) == CHOOSE j \in DOMAIN f.cols : f.cols[j] = col
        names == Range(f.cols)
    IN  [cols |-> f.cols,
         n |-> Len(f.rows),
         dtype |-> [col \in names |-> InferDtype(raw(idx(col)))],
         data |-> [col \in names |-> ParseColumn(raw(idx(col)))]]

IsNumericDtype(d) == d \in {"int64", "float64", "bool"}

Row(t, i) == [col \in Range(t.cols) |-> t.data[col][i]]

\* Series.isnull().sum()
NullCount(t, col) == Count(t.data[col], IsNull)

\* Series.duplicated().sum(): entries equal to an earlier one (NaN equals NaN)
DuplicatedCount(s) == Cardinality({i \in DOMAIN s : \E j \in 1..(i - 1) : s[j] = s[i]})

\* df.duplicated().sum()
DuplicatedRows(t) ==
    Cardinality({i \in 1..t.n : \E j \in 1..(i - 1) : Row(t, j) = Row(t, i)})

Header(n) == [kind |-> "header", sec |-> n]

-----------------------------------------------------------------------------
(* Load and sections 1 to 4 *)

\* the mutant of Load: the early return after the error message is missing
LoadWithoutReturn ==
    /\ pc = "start"
    /\ IF loadOk
       THEN /\ df' = ReadCsv(file)
            /\ out' = <<[kind |-> "banner"],
                        [kind |-> "loaded", rows |-> Len(file.rows), cols |-> Len(file.cols)]>>
       ELSE /\ df' = df
            /\ out' = <<[kind |-> "banner"], [kind |-> "load_error"]>>
    /\ pc' = "s1"
    /\ UNCHANGED <<file, loadOk, date_columns, numeric_columns, boolean_columns,
                   missing_df, duplicates>>

\* lines 19-29: banner, then read_csv inside try/except
Load ==
    /\ pc = "start"
    /\ IF loadOk
       THEN /\ df' = ReadCsv(file)
            /\ out' = <<[kind |-> "banner"],
                        [kind |-> "loaded", rows |-> Len(file.rows), cols |-> Len(file.cols)]>>
            /\ pc' = "s1"
       ELSE /\ df' = df
            /\ out' = <<[kind |-> "banner"], [kind |-> "load_error"]>>
            /\ pc' = "returned"
    /\ UNCHANGED <<file, loadOk, date_columns, numeric_columns, boolean_columns,
                   missing_df, duplicates>>

\* lines 31-36
BasicInfo ==
    /\ pc = "s1"
    /\ out' = out \o <<Header(1), [kind |-> "shape", rows |-> df.n, cols |-> Len(df.cols)]>>
    /\ pc' = "s2"
    /\ UNCHANGED <<file, loadOk, df, date_columns, numeric_columns, boolean_columns,
                   missing_df, duplicates>>

\* the mutant of StoredAsObject: any type that is not numeric counts
StoredAsNonNumeric(t, col) == t.dtype[col] \notin {"int64", "float64"}

\* line 57 / 61: the test applied to a date- or numeric-hinted column
StoredAsObject(t, col) == t.dtype[col] = "object"

\* line 65: the test applied to a boolean-hinted column
NotStoredAsBool(t, col) == t.dtype[col] \notin {"bool", "boolean"}

\* lines 56-66: the three loops reporting potential data type issues
DtypeIssues(t, dcols, ncols, bcols) ==
    LET issue(h, col) == [kind |-> "dtype_issue", hint |-> h, col |-> col,
                          dtype |-> t.dtype[col]]
    IN  Map(Filter(dcols, LAMBDA c : StoredAsObject(t, c)), LAMBDA c : issue("date", c))
        \o Map(Filter(ncols, LAMBDA c : StoredAsObject(t, c)), LAMBDA c : issue("numeric", c))
        \o Map(Filter(bcols, LAMBDA c : NotStoredAsBool(t, c)), LAMBDA c : issue("boolean", c))

\* lines 38-66
DataTypes ==
    /\ pc = "s2"
    /\ date_columns' = RoleColumns(df.cols, DATE_KEYWORDS)
    /\ numeric_columns' = RoleColumns(df.cols, NUMERIC_KEYWORDS)
    /\ boolean_columns' = RoleColumns(df.cols, BOOLEAN_KEYWORDS)
    /\ out' = out \o <<Header(2), [kind |-> "dtypes", dtypes |-> df.dtype]>>
                  \o DtypeIssues(df, date_columns', numeric_columns', boolean_columns')
    /\ pc' = "s3"
    /\ UNCHANGED <<file, loadOk, df, missing_df, duplicates>>

\* lines 74-76: per column, the missing count and count / len(df) * 100
MissingDf(t) ==
    [col \in Range(t.cols) |->
        [Count |-> NullCount(t, col), Percent |-> NpPercent(NullCount(t, col), t.n)]]

\* missing_df[missing_df['Count'] > 0]
MissingColumns(m) == {col \in DOMAIN m : m[col].Count > 0}

\* missing_df[missing_df['Percent'] > 20]
CriticalMissing(m) == {col \in DOMAIN m : QGreater(m[col].Percent, 20)}

\* lines 68-95
MissingValues ==
    /\ pc = "s3"
    /\ missing_df' = MissingDf(df)
    /\ LET m == missing_df'
           total_missing == SumSeq(Map(df.cols, LAMBDA c : m[c].Count))
           total_cells == df.n * Len(df.cols)
       IN  out' = out
             \o <<Header(3),
                  [kind |-> "total_missing", count |-> total_missing, cells |-> total_cells,
                   percent |-> NpPercent(total_missing, total_cells)]>>
             \o (IF Cardinality(MissingColumns(m)) > 0
                 THEN <<[kind |-> "missing_columns", cols |-> MissingColumns(m),
                         n |-> Cardinality(MissingColumns(m))]>>
                 ELSE <<[kind |-> "no_missing"]>>)
             \o (IF Cardinality(CriticalMissing(m)) > 0
                 THEN <<[kind |-> "critical_missing", cols |-> CriticalMissing(m)]>>
                 ELSE <<>>)
    /\ pc' = "s4"
    /\ UNCHANGED <<file, loadOk, df, date_columns, numeric_columns, boolean_columns,
                   duplicates>>

\* lines 97-113
DuplicateRecords ==
    /\ pc = "s4"
    /\ duplicates' = DuplicatedRows(df)
    /\ out' = out
         \o <<Header(4),
              [kind |-> "duplicate_rows", count |-> duplicates',
               percent |-> NpPercent(duplicates', df.n)]>>
         \o (IF InCols(df, BOOKING_ID)
             THEN <<[kind |-> "duplicate_booking_ids",
                     count |-> DuplicatedCount(df.data[BOOKING_ID])]>>
             ELSE <<>>)
         \o (IF InCols(df, RESERVATION_ID)
             THEN <<[kind |-> "duplicate_reservation_ids",
                     count |-> DuplicatedCount(df.data[RESERVATION_ID])]>>
             ELSE <<>>)
    /\ pc' = "s5"
    /\ UNCHANGED <<file, loadOk, df, date_columns, numeric_columns, boolean_columns,
                   missing_df>>

-----------------------------------------------------------------------------
(* Section 5: outlier detection *)

RECURSIVE Insert(_, _)
Insert(x, s) ==
    IF s = <<>> THEN <<x>>
    ELSE IF x <= Head(s) THEN <<x>> \o s
    ELSE <<Head(s)>> \o Insert(x, Tail(s))

RECURSIVE SortInts(_)
SortInts(s) == IF s = <<>> THEN <<>> ELSE Insert(Head(s), SortInts(Tail(s)))

\* the non-null numbers of a numeric series
NumValues(s) == Map(Filter(s, IsNum), LAMBDA x : x.v)

\* Series.quantile(a / 4), linear interpolation between order statistics,
\* times 8 so that the result and the fences derived from it stay integral.
\* "nan" for a series with no non-null value.
Quantile8(s, a) ==
    LET x == SortInts(NumValues(s))
        m == Len(x)
        lo == ((m - 1) * a) \div 4
        r == ((m - 1) * a) % 4
    IN  IF m = 0 THEN NanQ
        ELSE IF r = 0 THEN [k |-> "num", v |-> 8 * x[lo + 1]]
        ELSE [k |-> "num", v |-> 8 * x[lo + 1] + 2 * r * (x[lo + 2] - x[lo + 1])]

\* Python int / int: raises ZeroDivisionError on a zero divisor
PyPercent(a, b) ==
    IF b = 0 THEN [ok |-> FALSE, err |-> "ZeroDivisionError"]
    ELSE [ok |-> TRUE, q |-> Ratio(a * 100, b)]

\* lines 125-126: Q1 - 1.5 * IQR and Q3 + 1.5 * IQR; nan when the quartiles are
LowerBound(Q1, Q3) ==
    IF Q1.k = "num" THEN [k |-> "num", v |-> Q1.v - (3 * (Q3.v - Q1.v)) \div 2] ELSE NanQ

UpperBound(Q1, Q3) ==
    IF Q1.k = "num" THEN [k |-> "num", v |-> Q3.v + (3 * (Q3.v - Q1.v)) \div 2] ELSE NanQ

\* line 127: (df[column] < lower_bound) | (df[column] > upper_bound) on one
\* entry; a comparison with nan is False
IsOutlier(x, lower_bound, upper_bound) ==
    /\ lower_bound.k = "num"
    /\ IsNum(x)
    /\ (8 * x.v < lower_bound.v \/ 8 * x.v > upper_bound.v)

\* line 128: the tuple returned, or the exception of the percentage
OutlierResult(outliers, lower_bound, upper_bound, pct) ==
    IF ~pct.ok THEN pct
    ELSE [ok |-> TRUE, outliers |-> outliers, lb |-> lower_bound, ub |-> upper_bound,
          pct |-> pct.q]

OutliersWithin(t, s, lower_bound, upper_bound) ==
    OutlierResult(Filter(s, LAMBDA x : IsOutlier(x, lower_bound, upper_bound)),
                  lower_bound, upper_bound,
                  PyPercent(Count(s, LAMBDA x : IsOutlier(x, lower_bound, upper_bound)), t.n))

OutliersFrom(t, s, Q1, Q3) == OutliersWithin(t, s, LowerBound(Q1, Q3), UpperBound(Q1, Q3))

\* lines 121-128
detect_outliers(t, column) ==
    IF t.dtype[column] = "bool" THEN [ok |-> FALSE, err |-> "TypeError"]
    ELSE OutliersFrom(t, t.data[column],
                      Quantile8(t.data[column], 1), Quantile8(t.data[column], 3))

Head5(s) == SubSeq(s, 1, IF Len(s) < 5 THEN Len(s) ELSE 5)

\* lines 135-144: the body of the loop for one allow-listed column
OutlierLines(t, col) ==
    IF ~(InCols(t, col) /\ IsNumericDtype(t.dtype[col])) THEN <<>>
    ELSE LET r == detect_outliers(t, col)
         IN  IF ~r.ok THEN <<[kind |-> "outlier_skip", col |-> col, err |-> r.err]>>
             ELSE <<[kind |-> "outliers", col |-> col, lb |-> r.lb, ub |-> r.ub,
                     count |-> Len(r.outliers), percent |-> r.pct]>>
                  \o (IF Len(r.outliers) > 0 /\ Len(r.outliers) < 10
                      THEN <<[kind |-> "outlier_samples", col |-> col,
                              values |-> Head5(r.outliers)]>>
                      ELSE <<>>)

\* lines 115-144
OutlierDetection ==
    /\ pc = "s5"
    /\ out' = out \o <<Header(5)>>
                  \o Concat(Map(KEY_NUMERIC_COLS, LAMBDA c : OutlierLines(df, c)))
    /\ pc' = "s6"
    /\ UNCHANGED <<file, loadOk, df, date_columns, numeric_columns, boolean_columns,
                   missing_df, duplicates>>

-----------------------------------------------------------------------------
(* Section 6: value consistency *)

\* str(x) of a cell
AsStr(x) ==
    CASE x.k = "nan" -> NANTEXT
      [] x.k = "str" -> x.v
      [] x.k = "bool" -> IF x.v THEN TRUETEXT ELSE FALSETEXT
      [] OTHER -> <<"#">>

\* unique(): distinct entries in order of first appearance
Unique(s) == Filter([i \in DOMAIN s |-> [x |-> s[i], first |-> \A j \in 1..(i - 1) : s[j] # s[i]]],
                    LAMBDA e : e.first)

UniqueValues(s) == Map(Unique(s), LAMBDA e : e.x)

\* line 164: df[col].dropna().astype(str).unique()
RawValues(t, col) == UniqueValues(Map(Filter(t.data[col], LAMBDA x : ~IsNull(x)), AsStr))

\* the mutant of Normalize: lower-cased but not trimmed
NormalizeLowerOnly(val) == Lower(val)

\* line 165: val.lower().strip()
Normalize(val) == Strip(Lower(val))

\* lines 170-176: raw values grouped by normalized form, groups in order of
\* first appearance, each as [norm, variations]
ValueGroups(values) ==
    LET norms == UniqueValues(Map(values, Normalize))
    IN  Map(norms, LAMBDA nv : [norm |-> nv,
                                 variations |-> Filter(values, LAMBDA v : Normalize(v) = nv)])

\* lines 154-181: the body of the loop for one object column
ConsistencyLines(t, col) ==
    LET values == RawValues(t, col)
        unique_count == Cardinality(Range(Filter(t.data[col], LAMBDA x : ~IsNull(x))))
        normalized_values == Map(values, Normalize)
    IN  IF ~(1 < unique_count /\ unique_count < 20) THEN <<>>
        ELSE <<[kind |-> "consistency", col |-> col, unique_count |-> unique_count]>>
             \o (IF Cardinality(Range(normalized_values)) < Len(values)
                 THEN <<[kind |-> "consistency_warning", col |-> col]>>
                      \o Map(Filter(ValueGroups(values), LAMBDA g : Len(g.variations) > 1),
                             LAMBDA g : [kind |-> "similar_values", col |-> col,
                                         norm |-> g.norm, variations |-> g.variations])
                 ELSE <<>>)

\* lines 146-181
ValueConsistency ==
    /\ pc = "s6"
    /\ out' = out \o <<Header(6)>>
                  \o Concat(Map(Filter(df.cols, LAMBDA c : df.dtype[c] = "object"),
                                LAMBDA c : ConsistencyLines(df, c)))
    /\ pc' = "s7"
    /\ UNCHANGED <<file, loadOk, df, date_columns, numeric_columns, boolean_columns,
                   missing_df, duplicates>>

-----------------------------------------------------------------------------
(* Section 7: date range validation.  A date is kept as its year; the     *)
(* texts of the inputs that parse are four-digit years (1 January).       *)

NaT == [k |-> "nan"]
Date(y) == [k |-> "date", year |-> y]

\* one element of pd.to_datetime(series, errors='coerce'): numbers count
\* nanoseconds from 1970, booleans and unparseable text become NaT
ToDatetime(x) ==
    CASE x.k = "nan" -> NaT
      [] x.k = "num" -> Date(1970)
      [] x.k = "str" -> IF Len(x.v) = 4 /\ AllDigits(x.v) THEN Date(DigitsVal(x.v)) ELSE NaT
      [] OTHER -> NaT

SeqMin(s) == CHOOSE x \in Range(s) : \A y \in Range(s) : x <= y
SeqMax(s) == CHOOSE x \in Range(s) : \A y \in Range(s) : x >= y

\* lines 191-223: the body of the loop for one date-hinted column
DateLines(t, col, current_year) ==
    LET s == t.data[col]
        date_series == Map(s, ToDatetime)
        years == Map(Filter(date_series, LAMBDA d : d.k = "date"), LAMBDA d : d.year)
        future_dates == Filter(years, LAMBDA y : y > current_year)
        very_old == Filter(years, LAMBDA y : y < 2000)
    IN  IF Len(years) = 0
        THEN <<[kind |-> "date_invalid", col |-> col]>>
        ELSE <<[kind |-> "date_range", col |-> col,
                min |-> SeqMin(years), max |-> SeqMax(years)]>>
             \o (IF Len(future_dates) > 0
                 THEN <<[kind |-> "future_dates", col |-> col, count |-> Len(future_dates),
                         percent |-> PyPercent(Len(future_dates), t.n).q]>>
                 ELSE <<>>)
             \o (IF Len(very_old) > 0
                 THEN <<[kind |-> "old_dates", col |-> col, count |-> Len(very_old)]>>
                 ELSE <<>>)

\* the year pd.Timestamp.now() can fall in
NowYears == {2025, 2026}

\* lines 183-223
DateRange ==
    /\ pc = "s7"
    /\ \E current_year \in NowYears :
         out' = out \o <<Header(7)>>
                    \o Concat(Map(Filter(date_columns, LAMBDA c : InCols(df, c)),
                                  LAMBDA c : DateLines(df, c, current_year)))
    /\ pc' = "s8"
    /\ UNCHANGED <<file, loadOk, df, date_columns, numeric_columns, boolean_columns,
                   missing_df, duplicates>>

-----------------------------------------------------------------------------
(* Section 8: numeric fields validation *)

DOLLAR == "$"
COMMA == ","

\* line 237: '$' in str(df[col].iloc[0]); iloc[0] raises IndexError on an
\* empty column
CurrencyTest(s) ==
    IF Len(s) = 0 THEN [ok |-> FALSE, err |-> "IndexError"]
    ELSE [ok |-> TRUE, currency |-> Contains(AsStr(s[1]), <<DOLLAR>>)]

\* line 238: one cell of astype(str).str.replace('$','').str.replace(',','')
CleanCurrency(x) == Remove(Remove(AsStr(x), DOLLAR), COMMA)

\* line 240: one element of pd.to_numeric(series, errors='coerce')
ToNumericCoerce(x) ==
    CASE x.k = "str" -> IF Parses(x.v) THEN ParseFloat(x.v) ELSE NaN
      [] x.k = "bool" -> Num(IF x.v THEN 1000 ELSE 0)
      [] OTHER -> x

\* lines 235-242: the series the statistics are computed on, with the path
\* taken; ok = FALSE when the conversion raises
NumSeries(t, col) ==
    LET s == t.data[col]
        test == CurrencyTest(s)
    IN  IF IsNumericDtype(t.dtype[col]) THEN [ok |-> TRUE, path |-> "native", series |-> s]
        ELSE IF ~test.ok THEN test
        ELSE IF test.currency THEN
            IF \A i \in DOMAIN s : Parses(CleanCurrency(s[i]))
            THEN [ok |-> TRUE, path |-> "currency",
                  series |-> Map(s, LAMBDA x : ParseFloat(CleanCurrency(x)))]
            ELSE [ok |-> FALSE, err |-> "ValueError"]
        ELSE [ok |-> TRUE, path |-> "coerce", series |-> Map(s, ToNumericCoerce)]

ShouldBeNonNegative(col) == Hinted(col, NONNEGATIVE_KEYWORDS)

\* lines 233-268: the body of the loop for one numeric-hinted column.  Of
\* describe() the count, mean, extremes and quartiles are kept.
NumericLines(t, col) ==
    LET r == NumSeries(t, col)
        vals == NumValues(r.series)
        neg_count == Count(r.series, LAMBDA x : IsNum(x) /\ x.v < 0)
        zero_count == Count(r.series, LAMBDA x : IsNum(x) /\ x.v = 0)
    IN  IF ~r.ok THEN <<[kind |-> "numeric_skip", col |-> col, err |-> r.err]>>
        ELSE IF t.dtype[col] = "bool"
        THEN <<[kind |-> "numeric_skip", col |-> col, err |-> "KeyError"]>>
        ELSE <<[kind |-> "numeric_stats", col |-> col, path |-> r.path, series |-> r.series,
                count |-> Len(vals), mean |-> NpDiv(SumSeq(vals), Len(vals)),
                min |-> Quantile8(r.series, 0), q25 |-> Quantile8(r.series, 1),
                median |-> Quantile8(r.series, 2), q75 |-> Quantile8(r.series, 3),
                max |-> Quantile8(r.series, 4)]>>
             \o (IF ShouldBeNonNegative(col) /\ neg_count > 0
                 THEN <<[kind |-> "negative_values", col |-> col, count |-> neg_count,
                         percent |-> NpPercent(neg_count, t.n)]>>
                 ELSE <<>>)
             \o (IF zero_count > 0
                 THEN <<[kind |-> "zero_values", col |-> col, count |-> zero_count,
                         percent |-> NpPercent(zero_count, t.n)]>>
                 ELSE <<>>)

\* lines 225-268
NumericFields ==
    /\ pc = "s8"
    /\ out' = out \o <<Header(8)>>
                  \o Concat(Map(Filter(numeric_columns, LAMBDA c : InCols(df, c)),
                                LAMBDA c : NumericLines(df, c)))
    /\ pc' = "s9"
    /\ UNCHANGED <<file, loadOk, df, date_columns, numeric_columns, boolean_columns,
                   missing_df, duplicates>>

-----------------------------------------------------------------------------
(* Section 9: logical consistency *)

Raise == [k |-> "raise"]

AsNumber(x) == IF x.k = "bool" THEN (IF x.v THEN 1000 ELSE 0) ELSE x.v

\* a + b on two cells: pandas leaves a pair with a missing side missing;
\* str + str concatenates; str with a number raises TypeError
AddCells(a, b) ==
    IF IsNull(a) \/ IsNull(b) THEN NaN
    ELSE IF IsTxt(a) /\ IsTxt(b) THEN Txt(a.v \o b.v)
    ELSE IF IsTxt(a) \/ IsTxt(b) THEN Raise
    ELSE Num(AsNumber(a) + AsNumber(b))

\* a - b on two cells: str operands raise TypeError
SubCells(a, b) ==
    IF IsNull(a) \/ IsNull(b) THEN NaN
    ELSE IF IsTxt(a) \/ IsTxt(b) THEN Raise
    ELSE Num(AsNumber(a) - AsNumber(b))

ResultDtype(da, db) ==
    IF da = "object" \/ db = "object" THEN "object"
    ELSE IF da = "float64" \/ db = "float64" THEN "float64"
    ELSE "int64"

\* a binary operator applied to two Series, [dtype, data]; raised when any
\* row raises
SeriesOp(Op(_, _), a, b) ==
    LET data == [i \in DOMAIN a.data |-> Op(a.data[i], b.data[i])]
    IN  [raised |-> \E i \in DOMAIN data : data[i] = Raise,
         dtype |-> ResultDtype(a.dtype, b.dtype),
         data |-> data]

Series(t, col) == [dtype |-> t.dtype[col], data |-> t.data[col]]

\* df[col] = series
SetColumn(t, col, s) ==
    [cols |-> IF InCols(t, col) THEN t.cols ELSE Append(t.cols, col),
     n |-> t.n,
     dtype |-> [c \in Range(t.cols) \cup {col} |-> IF c = col THEN s.dtype ELSE t.dtype[c]],
     data |-> [c \in Range(t.cols) \cup {col} |-> IF c = col THEN s.data ELSE t.data[c]]]

\* lines 278-282
PackagesRule(t) ==
    IF ~(InCols(t, PACKAGES) /\ InCols(t, PACKAGES_COST)) THEN <<>>
    ELSE LET zero_package_cost ==
                 {i \in 1..t.n : /\ ~IsNull(t.data[PACKAGES][i])
                                 /\ t.data[PACKAGES][i] # Txt(<<>>)
                                 /\ t.data[PACKAGES_COST][i] \in {Num(0), Bool(FALSE)}}
         IN  IF Cardinality(zero_package_cost) > 0
             THEN <<[kind |-> "zero_package_cost", count |-> Cardinality(zero_package_cost)]>>
             ELSE <<>>

\* the mutant of Inconsistent: no tolerance
InconsistentNoTolerance(x) == IsNum(x) /\ x.v > 0

\* line 293: the test on one entry of 'Cost Difference' (0.01 is 10 thousandths)
Inconsistent(x) == IsNum(x) /\ x.v > 10

\* abs() of one entry
AbsCell(x) == IF IsNum(x) THEN Num(Abs(x.v)) ELSE x

\* lines 285-297.  [raised, table, lines]: the table as the statements that
\* ran left it, and raised = TRUE when one of them raised TypeError
CostRule(t) ==
    LET sum3 == SeriesOp(AddCells,
                         SeriesOp(AddCells, Series(t, RESERVATION_COST), Series(t, PACKAGES_COST)),
                         Series(t, ADD_ONS_COST))
        sum2 == SeriesOp(AddCells, Series(t, RESERVATION_COST), Series(t, PACKAGES_COST))
        t1 == SetColumn(t, CALCULATED_TOTAL, sum3)
        hasPromo == InCols(t1, PROMO_CODE_DISCOUNT)
        net == SeriesOp(SubCells, Series(t1, CALCULATED_TOTAL), Series(t1, PROMO_CODE_DISCOUNT))
        t2 == IF hasPromo THEN SetColumn(t1, CALCULATED_TOTAL, net) ELSE t1
        diff == SeriesOp(SubCells, Series(t2, TOTAL_COST), Series(t2, CALCULATED_TOTAL))
        t3 == SetColumn(t2, COST_DIFFERENCE,
                        [dtype |-> diff.dtype, data |-> Map(diff.data, AbsCell)])
        inconsistent_costs == Filter(t3.data[COST_DIFFERENCE], Inconsistent)
    IN  IF ~(\A c \in {TOTAL_COST, RESERVATION_COST, PACKAGES_COST, ADD_ONS_COST} : InCols(t, c))
        THEN [raised |-> FALSE, table |-> t, lines |-> <<>>]
        ELSE IF sum2.raised \/ sum3.raised THEN [raised |-> TRUE, table |-> t, lines |-> <<>>]
        ELSE IF hasPromo /\ net.raised THEN [raised |-> TRUE, table |-> t1, lines |-> <<>>]
        ELSE IF diff.raised THEN [raised |-> TRUE, table |-> t2, lines |-> <<>>]
        ELSE [raised |-> FALSE, table |-> t3,
              lines |-> IF Len(inconsistent_costs) > 0
                        THEN <<[kind |-> "inconsistent_costs",
                                count |-> Len(inconsistent_costs),
                                discrepancy |-> NpDiv(SumSeq(NumValues(inconsistent_costs)),
                                                      Len(inconsistent_costs))]>>
                        ELSE <<>>]

\* lines 270-297; an exception raised here is caught nowhere in the function
LogicalConsistency ==
    /\ pc = "s9"
    /\ LET r == CostRule(df)
       IN  /\ df' = r.table
           /\ out' = out \o <<Header(9)>> \o PackagesRule(df) \o r.lines
           /\ pc' = IF r.raised THEN "raised" ELSE "s10"
    /\ UNCHANGED <<file, loadOk, date_columns, numeric_columns, boolean_columns,
                   missing_df, duplicates>>

-----------------------------------------------------------------------------
(* Section 10: summary *)

\* the mutant of Issues: the Booking ID test nested under the duplicate-row test
IssuesNested(t, m, dups) ==
    LET missing_cols_count == Cardinality(MissingColumns(m))
        critical_missing_count == Cardinality(CriticalMissing(m))
    IN  (IF missing_cols_count > 0
         THEN <<[kind |-> "issue_missing", count |-> missing_cols_count]>> ELSE <<>>)
        \o (IF critical_missing_count > 0
            THEN <<[kind |-> "issue_critical", count |-> critical_missing_count]>> ELSE <<>>)
        \o (IF dups > 0 THEN <<[kind |-> "issue_duplicates", count |-> dups]>> ELSE <<>>)
        \o (IF dups > 0 /\ InCols(t, BOOKING_ID) /\ DuplicatedCount(t.data[BOOKING_ID]) > 0
            THEN <<[kind |-> "issue_booking_ids",
                    count |-> DuplicatedCount(t.data[BOOKING_ID])]>>
            ELSE <<>>)

\* the mutant of Issues: the missing-value counts recomputed from the table as
\* it is when the summary runs
IssuesRecomputed(t, m, dups) ==
    LET missing_cols_count == Cardinality(MissingColumns(MissingDf(t)))
        critical_missing_count == Cardinality(CriticalMissing(MissingDf(t)))
    IN  (IF missing_cols_count > 0
         THEN <<[kind |-> "issue_missing", count |-> missing_cols_count]>> ELSE <<>>)
        \o (IF critical_missing_count > 0
            THEN <<[kind |-> "issue_critical", count |-> critical_missing_count]>> ELSE <<>>)
        \o (IF dups > 0 THEN <<[kind |-> "issue_duplicates", count |-> dups]>> ELSE <<>>)
        \o (IF InCols(t, BOOKING_ID) /\ DuplicatedCount(t.data[BOOKING_ID]) > 0
            THEN <<[kind |-> "issue_booking_ids",
                    count |-> DuplicatedCount(t.data[BOOKING_ID])]>>
            ELSE <<>>)

\* lines 304-319: the issues list
Issues(t, m, dups) ==
    LET missing_cols_count == Cardinality(MissingColumns(m))
        critical_missing_count == Cardinality(CriticalMissing(m))
    IN  (IF missing_cols_count > 0
         THEN <<[kind |-> "issue_missing", count |-> missing_cols_count]>> ELSE <<>>)
        \o (IF critical_missing_count > 0
            THEN <<[kind |-> "issue_critical", count |-> critical_missing_count]>> ELSE <<>>)
        \o (IF dups > 0 THEN <<[kind |-> "issue_duplicates", count |-> dups]>> ELSE <<>>)
        \o (IF InCols(t, BOOKING_ID) /\ DuplicatedCount(t.data[BOOKING_ID]) > 0
            THEN <<[kind |-> "issue_booking_ids",
                    count |-> DuplicatedCount(t.data[BOOKING_ID])]>>
            ELSE <<>>)

\* lines 299-333
Summary ==
    /\ pc = "s10"
    /\ LET issues == Issues(df, missing_df, duplicates)
       IN  out' = out \o <<Header(10)>>
                      \o (IF issues # <<>> THEN issues ELSE <<[kind |-> "no_issues"]>>)
                      \o <<[kind |-> "complete"]>>
    /\ pc' = "done"
    /\ UNCHANGED <<file, loadOk, df, date_columns, numeric_columns, boolean_columns,
                   missing_df, duplicates>>

-----------------------------------------------------------------------------
(* Input files.  A file is a header row and records of raw cell text; an  *)
(* empty cell is a missing value.  Each family fixes the columns and draws *)
(* every record from a small set.                                          *)

STATUS == <<"S","t","a","t","u","s">>
WAS_LATE == <<"W","a","s"," ","L","a","t","e">>
CREATED_AT == <<"C","r","e","a","t","e","d"," ","A","t">>

MaxCostRows == 2
MaxOutlierRows == 4
MaxCatRows == 4
MaxIdRows == 5
MaxFlagRows == 2

Files(cols, rowset, maxrows) ==
    {[cols |-> cols, rows |-> r] : r \in UNION {[1..n -> rowset] : n \in 0..maxrows}}

\* Total, Reservation, Packages, Add Ons, Promo
PromoRows ==
    {<<<<"1","1","5">>, <<"1","0","0">>, <<"2","0">>, <<"5">>, <<"1","0">>>>,
     <<<<"1","2","0">>, <<"1","0","0">>, <<"2","0">>, <<"5">>, <<"1","0">>>>,
     <<<<"1","1","5",".","0","0","5">>, <<"1","0","0">>, <<"2","0">>, <<"5">>, <<"1","0">>>>,
     <<<<>>, <<"1","0","0">>, <<"2","0">>, <<"5">>, <<"1","0">>>>,
     <<<<"$","1","1","5">>, <<"1","0","0">>, <<"2","0">>, <<"5">>, <<"1","0">>>>,
     <<<<"1","1","5">>, <<"1","0","0">>, <<"$","2","0">>, <<"5">>, <<"1","0">>>>,
     <<<<"0">>, <<"0">>, <<"0">>, <<"0">>, <<"0">>>>}

\* Total, Reservation, Packages, Add Ons
NoPromoRows ==
    {<<<<"1","2","5">>, <<"1","0","0">>, <<"2","0">>, <<"5">>>>,
     <<<<"1","2","0">>, <<"1","0","0">>, <<"2","0">>, <<"5">>>>,
     <<<<"1","2","5",".","0","0","5">>, <<"1","0","0">>, <<"2","0">>, <<"5">>>>,
     <<<<"$","1",",","1","2","5">>, <<"1","0","0","0">>, <<"1","2","0">>, <<"5">>>>,
     <<<<"-","5">>, <<"0">>, <<"0">>, <<"-","5">>>>}

\* Party Size
PartyRows ==
    {<<<<"2">>>>,
     <<<<"1","0","0">>>>,
     <<<<>>>>}

\* Status
StatusRows ==
    {<<<<"A","c","t","i","v","e">>>>,
     <<<<"a","c","t","i","v","e"," ">>>>,
     <<<<"A","C","T","I","V","E">>>>,
     <<<<"i","n","a","c","t","i","v","e">>>>}

\* Booking ID, Reservation ID
IdRows ==
    {<<<<"B","1">>, <<"R","1">>>>,
     <<<<"B","1">>, <<"R","2">>>>,
     <<<<>>, <<"R","1">>>>}

\* Packages, Packages Cost
PackageRows ==
    {<<<<"S","p","a">>, <<"0">>>>,
     <<<<>>, <<"0">>>>,
     <<<<"S","p","a">>, <<"3","0">>>>}

\* Was Late, Created At
FlagRows ==
    {<<<<"T","r","u","e">>, <<"2","0","1","9">>>>,
     <<<<"F","a","l","s","e">>, <<"2","0","2","7">>>>,
     <<<<"T","r","u","e">>, <<"1","9","9","9">>>>,
     <<<<"T","r","u","e">>, <<"a","b","c">>>>,
     <<<<>>, <<>>>>}

\* a Status column of k distinct values "A", "a", "b", ...: around the limit
\* of 20 categories
WideFile(k) ==
    [cols |-> <<STATUS>>,
     rows |-> [i \in 1..k |-> << IF i = 1 THEN <<"A">> ELSE <<LOWER[i - 1]>> >>]]

InputFiles ==
    Files(<<TOTAL_COST, RESERVATION_COST, PACKAGES_COST, ADD_ONS_COST, PROMO_CODE_DISCOUNT>>,
          PromoRows, MaxCostRows)
    \cup Files(<<TOTAL_COST, RESERVATION_COST, PACKAGES_COST, ADD_ONS_COST>>,
               NoPromoRows, MaxCostRows)
    \cup Files(<<PARTY_SIZE>>, PartyRows, MaxOutlierRows)
    \cup Files(<<STATUS>>, StatusRows, MaxCatRows)
    \cup {WideFile(k) : k \in 18..21}
    \cup Files(<<BOOKING_ID, RESERVATION_ID>>, IdRows, MaxIdRows)
    \cup Files(<<WAS_LATE, CREATED_AT>>, FlagRows, MaxFlagRows)
    \cup Files(<<PACKAGES, PACKAGES_COST>>, PackageRows, MaxFlagRows)

-----------------------------------------------------------------------------
(* The program *)

Init ==
    /\ file \in InputFiles
    /\ loadOk \in BOOLEAN
    /\ pc = "start"
    /\ df = NoTable
    /\ out = <<>>
    /\ date_columns = <<>>
    /\ numeric_columns = <<>>
    /\ boolean_columns = <<>>
    /\ missing_df = <<>>
    /\ duplicates = 0

Next ==
    \/ Load
    \/ BasicInfo
    \/ DataTypes
    \/ MissingValues
    \/ DuplicateRecords
    \/ OutlierDetection
    \/ ValueConsistency
    \/ DateRange
    \/ NumericFields
    \/ LogicalConsistency
    \/ Summary

Spec == Init /\ [][Next]_vars

-----------------------------------------------------------------------------
(* Properties *)

Loaded == ReadCsv(file)

Lines(kind) == Filter(out, LAMBDA l : l.kind = kind)
LinesFor(kind, col) == Filter(out, LAMBDA l : l.kind = kind /\ l.col = col)
HasLine(kind) == \E i \in DOMAIN out : out[i].kind = kind
HasHeader(n) == \E i \in DOMAIN out : out[i] = Header(n)

AfterLoad == pc \notin {"start", "returned"}
AfterSection2 == pc \in {"s3", "s4", "s5", "s6", "s7", "s8", "s9", "s10", "done", "raised"}
AfterSection3 == pc \in {"s4", "s5", "s6", "s7", "s8", "s9", "s10", "done", "raised"}
AfterSection5 == pc \in {"s6", "s7", "s8", "s9", "s10", "done", "raised"}
AfterSection6 == pc \in {"s7", "s8", "s9", "s10", "done", "raised"}
AfterSection8 == pc \in {"s9", "s10", "done", "raised"}
AfterSection9 == pc \in {"s10", "done"}

\* C1: once the table is loaded no exception escapes a check, and a finished
\* pass has printed the header of every section 2 to 10 and the completion
\* banner.
C1_EveryCheckCompletes ==
    /\ pc # "raised"
    /\ pc = "done" => /\ \A n \in 2..10 : HasHeader(n)
                      /\ HasLine("complete")

\* C2: when loading fails the only output is the title banner and one error,
\* no section header is printed, no table exists and nothing further runs.
C2_LoadFailureStops ==
    (~loadOk /\ pc # "start") =>
        /\ pc = "returned"
        /\ out = <<[kind |-> "banner"], [kind |-> "load_error"]>>
        /\ \A n \in 1..10 : ~HasHeader(n)
        /\ df = NoTable
        /\ ~ENABLED Next

C2_Witness == ~loadOk /\ pc = "returned" /\ Len(file.rows) > 0

PercentKinds ==
    {"total_missing", "duplicate_rows", "outliers", "future_dates", "negative_values",
     "zero_values"}

ZeroPercent(q) == q.k = "num" /\ q.n = 0

\* C3: on a table with 0 rows no check raises and every percentage that is
\* reported (overall and per-column missing, duplicate rows, outliers, future
\* dates, negative and zero values) is 0%.
C3_EmptyTablePercentages ==
    (AfterLoad /\ df.n = 0) =>
        /\ pc # "raised"
        /\ \A i \in DOMAIN out : out[i].kind \in PercentKinds => ZeroPercent(out[i].percent)
        /\ AfterSection3 => \A col \in DOMAIN missing_df : ZeroPercent(missing_df[col].Percent)

DerivedColumns == {CALCULATED_TOTAL, COST_DIFFERENCE}

\* C4: no check but the cross-field check changes the table; the cross-field
\* check only sets the two derived columns; the role-hint lists and the
\* summary are those of the table as loaded.
C4_DerivedColumnsDoNotLeak ==
    AfterLoad =>
        /\ pc \in {"s1", "s2", "s3", "s4", "s5", "s6", "s7", "s8", "s9"} => df = Loaded
        /\ df.n = Loaded.n
        /\ Range(df.cols) \ Range(Loaded.cols) \subseteq DerivedColumns
        /\ \A col \in Range(Loaded.cols) \ DerivedColumns :
              /\ InCols(df, col)
              /\ df.data[col] = Loaded.data[col]
              /\ df.dtype[col] = Loaded.dtype[col]
        /\ AfterSection2 =>
              /\ date_columns = RoleColumns(Loaded.cols, DATE_KEYWORDS)
              /\ numeric_columns = RoleColumns(Loaded.cols, NUMERIC_KEYWORDS)
              /\ boolean_columns = RoleColumns(Loaded.cols, BOOLEAN_KEYWORDS)
        /\ pc = "done" =>
              LET h == CHOOSE i \in DOMAIN out : out[i] = Header(10)
                  expected == Issues(Loaded, MissingDf(Loaded), DuplicatedRows(Loaded))
              IN  SubSeq(out, h + 1, Len(out) - 1) =
                      IF expected # <<>> THEN expected ELSE <<[kind |-> "no_issues"]>>

\* the derived columns were added, one of them holds a missing value, and the
\* summary has run
C4_Witness ==
    /\ pc = "done"
    /\ InCols(df, CALCULATED_TOTAL) /\ InCols(df, COST_DIFFERENCE)
    /\ ~InCols(Loaded, COST_DIFFERENCE)
    /\ \E i \in 1..df.n : IsNull(df.data[COST_DIFFERENCE][i])
    /\ HasLine("issue_missing")

\* C5: the summary restates the counts of sections 3 and 4: one line per
\* count that is greater than 0, with that count, and the single "no
\* significant issues" line exactly when there is none.
C5_SummaryRestatesCounts ==
    pc = "done" =>
        LET missing == IF HasLine("missing_columns")
                       THEN Lines("missing_columns")[1].n ELSE 0
            critical == IF HasLine("critical_missing")
                        THEN Cardinality(Lines("critical_missing")[1].cols) ELSE 0
            dupRows == Lines("duplicate_rows")[1].count
            dupIds == IF HasLine("duplicate_booking_ids")
                      THEN Lines("duplicate_booking_ids")[1].count ELSE 0
            Restated(kind, n) ==
                Lines(kind) = IF n > 0 THEN <<[kind |-> kind, count |-> n]>> ELSE <<>>
        IN  /\ Restated("issue_missing", missing)
            /\ Restated("issue_critical", critical)
            /\ Restated("issue_duplicates", dupRows)
            /\ Restated("issue_booking_ids", dupIds)
            /\ Len(Lines("no_issues")) <= 1
            /\ HasLine("no_issues") <=>
                   (missing = 0 /\ critical = 0 /\ dupRows = 0 /\ dupIds = 0)

\* a column with missing values whose rate is not critical, next to duplicate
\* rows and duplicate Booking IDs
C5_Witness ==
    /\ pc = "done"
    /\ HasLine("issue_missing") /\ ~HasLine("issue_critical")
    /\ HasLine("issue_duplicates") /\ HasLine("issue_booking_ids")

\* duplicate Booking IDs without a duplicate row
C5_WitnessBookingIds ==
    pc = "done" /\ HasLine("issue_booking_ids") /\ ~HasLine("issue_duplicates")

C5_WitnessNoIssues == pc = "done" /\ HasLine("no_issues") /\ df.n > 1

Flagged(hint, col) ==
    \E i \in DOMAIN out :
        out[i].kind = "dtype_issue" /\ out[i].hint = hint /\ out[i].col = col

\* C6 as stated: a column is flagged exactly when it is date-hinted and not of
\* a date type, numeric-hinted and not of a numeric type, or boolean-hinted
\* and not of boolean type.
C6_FlagsEveryTypeMismatch ==
    AfterSection2 =>
        \A col \in Range(df.cols) \ DerivedColumns :
            /\ Flagged("date", col) <=>
                   (Hinted(col, DATE_KEYWORDS) /\ df.dtype[col] # "datetime64[ns]")
            /\ Flagged("numeric", col) <=>
                   (Hinted(col, NUMERIC_KEYWORDS) /\ df.dtype[col] \notin {"int64", "float64"})
            /\ Flagged("boolean", col) <=>
                   (Hinted(col, BOOLEAN_KEYWORDS) /\ df.dtype[col] # "bool")

\* C6 amended: a date-hinted or numeric-hinted column is flagged exactly when
\* it is stored as text (dtype object), whatever else it could be; a
\* boolean-hinted column exactly when its type is not boolean.
C6_FlagsTextAndNonBoolean ==
    AfterSection2 =>
        \A col \in Range(df.cols) \ DerivedColumns :
            /\ Flagged("date", col) <=>
                   (Hinted(col, DATE_KEYWORDS) /\ df.dtype[col] = "object")
            /\ Flagged("numeric", col) <=>
                   (Hinted(col, NUMERIC_KEYWORDS) /\ df.dtype[col] = "object")
            /\ Flagged("boolean", col) <=>
                   (Hinted(col, BOOLEAN_KEYWORDS) /\ df.dtype[col] # "bool")

\* a date-hinted integer column passes unflagged next to a flagged
\* boolean-hinted integer column
C6_Witness ==
    /\ AfterSection2
    /\ Hinted(RESERVATION_COST, DATE_KEYWORDS) /\ InCols(df, RESERVATION_COST)
    /\ df.dtype[RESERVATION_COST] = "int64" /\ ~Flagged("date", RESERVATION_COST)
    /\ InCols(df, PROMO_CODE_DISCOUNT) /\ Flagged("boolean", PROMO_CODE_DISCOUNT)

FirstNonNull(s) == s[CHOOSE i \in DOMAIN s : ~IsNull(s[i]) /\ \A j \in 1..(i - 1) : IsNull(s[j])]

CurrencyPathTaken(col) ==
    \/ \E i \in DOMAIN out :
          out[i].kind = "numeric_stats" /\ out[i].col = col /\ out[i].path = "currency"
    \/ \E i \in DOMAIN out :
          out[i].kind = "numeric_skip" /\ out[i].col = col /\ out[i].err = "ValueError"

\* C7: a numeric-hinted column that is not numeric takes the currency-cleaning
\* path exactly when its first non-null value contains "$", null values before
\* it notwithstanding; on the other path every unparseable value becomes null.
C7_CurrencyPathByFirstNonNull ==
    AfterSection8 =>
        \A col \in Range(numeric_columns) :
            (~IsNumericDtype(Loaded.dtype[col]) /\ \E i \in 1..Loaded.n : ~IsNull(Loaded.data[col][i]))
            => /\ CurrencyPathTaken(col) <=>
                      Contains(AsStr(FirstNonNull(Loaded.data[col])), <<DOLLAR>>)
               /\ \A i \in DOMAIN out :
                      (out[i].kind = "numeric_stats" /\ out[i].col = col /\ out[i].path = "coerce")
                      => \A r \in 1..Loaded.n :
                             (IsTxt(Loaded.data[col][r]) /\ ~Parses(Loaded.data[col][r].v))
                             => IsNull(out[i].series[r])

AllNull(s) == \A i \in DOMAIN s : IsNull(s[i])

\* C8: an allow-listed numeric column that is empty or all-null gets a skip
\* message in the outlier section and neither bounds nor an outlier count.
C8_AllNullColumnSkipped ==
    AfterSection5 =>
        \A i \in DOMAIN KEY_NUMERIC_COLS :
            LET col == KEY_NUMERIC_COLS[i]
            IN  (InCols(Loaded, col) /\ IsNumericDtype(Loaded.dtype[col])
                 /\ AllNull(Loaded.data[col]))
                => /\ LinesFor("outlier_skip", col) # <<>>
                   /\ LinesFor("outliers", col) = <<>>

\* the lower-cased, whitespace-trimmed form of a raw value
LowerTrimmed(v) == Strip(Lower(v))

RawSet(t, col) == {AsStr(t.data[col][i]) : i \in {r \in 1..t.n : ~IsNull(t.data[col][r])}}

Variants(t, col, n) == {v \in RawSet(t, col) : LowerTrimmed(v) = n}

\* C9: a text column is analysed exactly when it has more than 1 and fewer
\* than 20 distinct values; then the warning appears exactly when two distinct
\* raw values share a lower-cased trimmed form, and the groups reported are
\* exactly the forms with more than one raw variant, each with all its
\* variants.
C9_CategoricalGroups ==
    AfterSection6 =>
        \A col \in {c \in Range(Loaded.cols) : Loaded.dtype[c] = "object"} :
            LET raw == RawSet(Loaded, col)
                qualifies == 1 < Cardinality(raw) /\ Cardinality(raw) < 20
                clash == \E a, b \in raw : a # b /\ LowerTrimmed(a) = LowerTrimmed(b)
                groups == LinesFor("similar_values", col)
            IN  /\ Len(LinesFor("consistency", col)) = IF qualifies THEN 1 ELSE 0
                /\ Len(LinesFor("consistency_warning", col)) = IF qualifies /\ clash THEN 1 ELSE 0
                /\ ~(qualifies /\ clash) => groups = <<>>
                /\ (qualifies /\ clash) =>
                      /\ {[norm |-> groups[i].norm, variations |-> Range(groups[i].variations)] :
                             i \in DOMAIN groups}
                         = {[norm |-> n, variations |-> Variants(Loaded, col, n)] :
                               n \in {m \in {LowerTrimmed(v) : v \in raw} :
                                         Cardinality(Variants(Loaded, col, m)) > 1}}
                      /\ \A i \in DOMAIN groups :
                            /\ Len(groups[i].variations) = Cardinality(Range(groups[i].variations))
                            /\ \A j \in DOMAIN groups : groups[i].norm = groups[j].norm => i = j

\* the Status scenario: two normalized groups, the "active" one reported with
\* three raw variants
C9_Witness ==
    /\ pc = "done"
    /\ Cardinality({LowerTrimmed(v) : v \in RawSet(Loaded, STATUS)}) = 2
    /\ \E i \in DOMAIN out :
          /\ out[i].kind = "similar_values"
          /\ out[i].norm = <<"a","c","t","i","v","e">>
          /\ Len(out[i].variations) = 3
    /\ HasLine("consistency_warning")

\* 19 distinct values are analysed
C9_WitnessNineteen ==
    AfterSection6 /\ \E i \in DOMAIN out : out[i].kind = "consistency" /\ out[i].unique_count = 19

CostColumns(t) ==
    {TOTAL_COST, RESERVATION_COST, PACKAGES_COST, ADD_ONS_COST}
    \cup (IF InCols(t, PROMO_CODE_DISCOUNT) THEN {PROMO_CODE_DISCOUNT} ELSE {})

\* totalCost - (reservationCost + packagesCost + addOnsCost - promoCodeDiscount)
\* of row i, in thousandths
RowDifference(t, i) ==
    t.data[TOTAL_COST][i].v
    - (t.data[RESERVATION_COST][i].v + t.data[PACKAGES_COST][i].v + t.data[ADD_ONS_COST][i].v
       - (IF InCols(t, PROMO_CODE_DISCOUNT) THEN t.data[PROMO_CODE_DISCOUNT][i].v ELSE 0))

\* C10: with the four cost columns present (as numbers) a row is flagged
\* exactly when abs(total - (reservation + packages + add-ons - discount)) >
\* 0.01, the discount counted only if its column exists; the count reported is
\* the number of flagged rows and the discrepancy their mean absolute
\* difference.
C10_TotalCostRule ==
    (AfterSection9 /\ \A c \in {TOTAL_COST, RESERVATION_COST, PACKAGES_COST, ADD_ONS_COST} :
                          InCols(Loaded, c))
    => ( (\A c \in CostColumns(Loaded) : Loaded.dtype[c] \in {"int64", "float64"})
         => LET complete == {i \in 1..Loaded.n :
                                \A c \in CostColumns(Loaded) : IsNum(Loaded.data[c][i])}
                flagged == {i \in complete : Abs(RowDifference(Loaded, i)) > 10}
                total == SumSeq([j \in 1..Loaded.n |->
                                    IF j \in flagged THEN Abs(RowDifference(Loaded, j)) ELSE 0])
            IN  /\ \A i \in 1..Loaded.n :
                       Inconsistent(df.data[COST_DIFFERENCE][i]) <=> i \in flagged
                /\ Lines("inconsistent_costs") =
                       IF flagged = {} THEN <<>>
                       ELSE <<[kind |-> "inconsistent_costs",
                               count |-> Cardinality(flagged),
                               discrepancy |-> Ratio(total, Cardinality(flagged))]>> )

\* reservation 100, packages 20, add-ons 5, discount 10: a total of 115 is not
\* flagged and a total of 120 is, with discrepancy 5.00
C10_Witness ==
    /\ pc = "done"
    /\ InCols(Loaded, PROMO_CODE_DISCOUNT)
    /\ Loaded.n = 2
    /\ Row(Loaded, 1) = [c \in CostColumns(Loaded) |->
                            CASE c = TOTAL_COST -> Num(115000)
                              [] c = RESERVATION_COST -> Num(100000)
                              [] c = PACKAGES_COST -> Num(20000)
                              [] c = ADD_ONS_COST -> Num(5000)
                              [] OTHER -> Num(10000)]
    /\ Loaded.data[TOTAL_COST][2] = Num(120000)
    /\ Lines("inconsistent_costs") =
           <<[kind |-> "inconsistent_costs", count |-> 1, discrepancy |-> Ratio(5000, 1)]>>

\* a difference under the tolerance is not flagged, without a discount column
C10_WitnessTolerance ==
    /\ pc = "done"
    /\ ~InCols(Loaded, PROMO_CODE_DISCOUNT) /\ InCols(Loaded, TOTAL_COST)
    /\ \E i \in 1..Loaded.n :
          IsNum(df.data[COST_DIFFERENCE][i]) /\ df.data[COST_DIFFERENCE][i].v = 5
    /\ Lines("inconsistent_costs") # <<>>

=============================================================================
